---- MODULE Spec2Model ----
(***************************************************************************)
(* Model of pkg/pgmodel/querier/series_set.go: the pgxSeriesSet cursor    *)
(* over timescaleRows (Next / At / Err / Close) and the label assembly    *)
(* done by At (lookup in labelIDMap, metric override, additional labels,  *)
(* sort by name); the errorSeriesSet that buildSeriesSet returns when the  *)
(* resolver fails; and the pgxSeriesIterator over one row's samples       *)
(* (Next / Seek / At).                                                     *)
(*                                                                         *)
(* Go slices are 0-based, TLA+ sequences 1-based: row i of the code is    *)
(* rows[i + 1] here; rowIdx keeps the code's 0-based value (-1 at start). *)
(***************************************************************************)
EXTENDS Integers, Sequences, FiniteSets, TLC

VARIABLES
    rows,        \* p.rows: the timescaleRows handed to buildSeriesSet
    labelIDMap,  \* p.labelIDMap after querier.LabelsForIdMap returned nil
    rowIdx,      \* p.rowIdx
    err,         \* p.err
    atResult,    \* what the last At() call returned
    lastNext,    \* what the last Next() call returned: "none", "true", "false"
    lastOp,      \* the last method called on the cursor
    closeLog,    \* 0-based indexes of the rows whose Close() was called, in call order
    closeCalls,  \* number of pgxSeriesSet.Close() calls so far
    panicked,    \* a Go runtime panic (index out of range) was raised
    set,         \* the type buildSeriesSet returned: "pgxSeriesSet" or "errorSeriesSet"
    resolveErr,  \* what querier.LabelsForIdMap returned to buildSeriesSet
    resolverCalls, \* number of querier.LabelsForIdMap calls so far
    nextCalls,   \* number of Next() calls on the cursor so far
    atStreak,    \* number of At() calls in a row up to the last call, counted up to 2
    overridden   \* an At() call has written a metricOverride into a resolved label

VARIABLES
    cur,          \* pgxSeriesIterator.cur
    totalSamples, \* pgxSeriesIterator.totalSamples
    itTimes,      \* pgxSeriesIterator.times: what times.At(i) returns, (ts, ok)
    itValues,     \* pgxSeriesIterator.values.Elements
    itOp,         \* the last method called on the iterator
    itRet,        \* what the last Next() or Seek() returned: "none", "true", "false"
    itAt,         \* what the last call returned when it was At()
    seekT,        \* the argument of the last call when it was Seek()
    seekFrom,     \* the value of cur before the last call when it was Seek()
    fresh,        \* Seek() has not been called on the iterator
    yieldLog      \* while fresh: the positions at which Next() returned true

setVars == << rows, labelIDMap, rowIdx, err, atResult, lastNext, lastOp,
              closeLog, closeCalls, set, resolveErr, resolverCalls,
              nextCalls, atStreak, overridden >>

itVars == << cur, totalSamples, itTimes, itValues, itOp, itRet, itAt, seekT,
             seekFrom, fresh, yieldLog >>

vars == << setVars, itVars, panicked >>

----------------------------------------------------------------------------
(* Bounds of the model *)

MaxRows == 2
MaxLabelIds == 2
MaxCloses == 2
MaxExtraNexts == 2
MaxSamples == 3
MaxOverrun == 2

----------------------------------------------------------------------------
(* Values *)

\* labels.Label{Name, Value}
Label(n, v) == [Name |-> n, Value |-> v]

\* labels.Label{}: the zero-value label tested at line 107
ZeroLabel == Label("", "")

\* model.MetricNameLabelName
MetricNameLabelName == "__name__"

\* Byte-wise order of the label names used here, as Go's string < gives it
\* ('Z' = 0x5A < '_' = 0x5F < 'i' = 0x69 < 'j' = 0x6A; "" is least).
NameRank(n) ==
    CASE n = "" -> 0
      [] n = "Zone" -> 1
      [] n = "__name__" -> 2
      [] n = "instance" -> 3
      [] n = "job" -> 4

\* labels.Labels.Less(i, j): ls[i].Name < ls[j].Name
LabelLess(a, b) == NameRank(a.Name) < NameRank(b.Name)

\* error values held by p.err and row.err
NoErr == [kind |-> "nil", id |-> 0]
RowFetchErr(k) == [kind |-> "RowFetchError", id |-> k]
ErrInvalidRowData == [kind |-> "ErrInvalidRowData", id |-> 0]
MissingLabel(id) == [kind |-> "Missing label for id", id |-> id]

\* pgtype.Float8 elements of row.values
Present(f) == [Status |-> "Present", Float |-> f]
Null == [Status |-> "Null", Float |-> 0]

\* storage.Series returned by At(): nil, or a *pgxSeries
NotCalled == [kind |-> "none", labels |-> << >>, times |-> << >>, values |-> << >>]
NilSeries == [kind |-> "nil", labels |-> << >>, times |-> << >>, values |-> << >>]
pgxSeries(lls, times, values) ==
    [kind |-> "series", labels |-> lls, times |-> times, values |-> values]

\* timescaleRow
Row(e, tv, ids, override, additional) ==
    [err |-> e, times |-> tv.times, values |-> tv.values, labelIds |-> ids,
     metricOverride |-> override, additionalLabels |-> additional]

----------------------------------------------------------------------------
(* Inputs: the rows and the resolved mapping a cursor is built from *)

SeqsUpTo(S, n) == UNION {[1..k -> S] : k \in 0..n}

\* label identifiers; 0 is the "no label" sentinel
LabelIds == {1, 2, 3}

\* the label the store holds for an identifier
StoredLabel(id) ==
    CASE id = 1 -> Label("__name__", "foo")
      [] id = 2 -> Label("job", "a")
      [] id = 3 -> Label("__name__", "baz")

\* Mappings the resolver may leave behind: every identifier is resolved,
\* left as the zero-value label, or has no entry.
LabelIDMaps ==
    UNION {{[id \in S |-> IF id \in Z THEN ZeroLabel ELSE StoredLabel(id)] :
                Z \in SUBSET S} : S \in SUBSET LabelIds}

WellFormedTV == [times |-> <<0, 1>>, values |-> <<Present(1), Null>>]
MismatchedTV == [times |-> <<0>>, values |-> << >>]

AdditionalChoices == {<< >>, <<Label("job", "b"), Label("Zone", "z")>>}

\* Rows for one-row cursors: well-formed rows with every labelIds sequence up
\* to MaxLabelIds (At() returns on a row error or a length mismatch before it
\* reads labelIds; CursorRows has such rows)
AssemblyRows ==
    {Row(NoErr, tv, ids, o, a) :
        tv \in {WellFormedTV},
        ids \in SeqsUpTo(LabelIds \cup {0}, MaxLabelIds),
        o \in {"", "bar"},
        a \in AdditionalChoices}

\* Rows for cursors of several rows
CursorRows ==
    {Row(RowFetchErr(1), WellFormedTV, <<1>>, "", << >>),
     Row(RowFetchErr(2), MismatchedTV, <<1>>, "", << >>),
     Row(NoErr, MismatchedTV, <<1>>, "", << >>),
     Row(NoErr, WellFormedTV, << >>, "", << >>),
     Row(NoErr, WellFormedTV, <<2, 1>>, "", << >>),
     Row(NoErr, WellFormedTV, <<1, 2>>, "bar", << >>)}

RowSeqs == SeqsUpTo(CursorRows, MaxRows) \cup {<<r>> : r \in AssemblyRows}

----------------------------------------------------------------------------
(* pgxSeriesSet.Next *)

\* mutant of NextExhausted: the early return of line 56 is missing
NextExhaustedNever(idx, n) == FALSE

\* mutant of NextExhausted: off by one, the last row is never reached
NextExhaustedEarly(idx, n) == idx >= n - 1

\* line 56: the cursor is already past the last row
NextExhausted(idx, n) == idx >= n

\* mutant of NextErr: the row's error is never adopted
NextErrNeverAdopts(perr, row) == perr

\* mutant of NextErr: the row's error is assigned whatever is held
NextErrAlwaysAdopts(perr, row) == row.err

\* lines 63-65: adopt the row's error unless an error is already held
NextErr(perr, row) == IF perr = NoErr THEN row.err ELSE perr

pgxSeriesSetNext ==
    /\ set = "pgxSeriesSet"
    /\ ~panicked
    /\ nextCalls < Len(rows) + MaxExtraNexts
    /\ nextCalls' = nextCalls + 1
    /\ atStreak' = 0
    /\ IF NextExhausted(rowIdx, Len(rows))
       THEN /\ lastNext' = "false"
            /\ UNCHANGED << rowIdx, err >>
       ELSE /\ rowIdx' = rowIdx + 1
            /\ IF rowIdx + 1 >= Len(rows)
               THEN /\ lastNext' = "false"
                    /\ UNCHANGED err
               ELSE /\ err' = NextErr(err, rows[rowIdx + 2])
                    /\ lastNext' = "true"
    /\ lastOp' = "Next"
    /\ UNCHANGED << rows, labelIDMap, atResult, closeLog, closeCalls, panicked >>
    /\ UNCHANGED << set, resolveErr, resolverCalls, overridden, itVars >>

----------------------------------------------------------------------------
(* pgxSeriesSet.At *)

\* line 71
AtOutOfRange(idx, n) == idx >= n

\* line 80
LenMismatch(row) == Len(row.times) # Len(row.values)

\* mutant of IsSentinel: identifier 0 is looked up like any other
IsSentinelNever(id) == FALSE

\* lines 99-101
IsSentinel(id) == id = 0

\* mutant of LookupOk: the zero-value test of line 107 is missing
LookupOkAnyEntry(m, id) == id \in DOMAIN m

\* lines 102-110: the mapping has an entry for id that is not the zero label
LookupOk(m, id) == id \in DOMAIN m /\ m[id] # ZeroLabel

\* lines 96-112: the loop over row.labelIds, lls being the labels appended so far
RECURSIVE ResolveLabels(_, _, _)
ResolveLabels(ids, m, lls) ==
    IF ids = << >>
    THEN [err |-> NoErr, lls |-> lls]
    ELSE LET id == Head(ids) IN
         IF IsSentinel(id)
         THEN ResolveLabels(Tail(ids), m, lls)
         ELSE IF ~LookupOk(m, id)
              THEN [err |-> MissingLabel(id), lls |-> << >>]
              ELSE ResolveLabels(Tail(ids), m, Append(lls, m[id]))

\* mutant of ApplyOverride: the break of line 118 is missing
ApplyOverrideNoBreak(lls, override) ==
    [i \in 1..Len(lls) |->
        IF override # "" /\ lls[i].Name = MetricNameLabelName
        THEN Label(lls[i].Name, override)
        ELSE lls[i]]

\* lines 114-121: set the value of the first label named __name__, then break
ApplyOverride(lls, override) ==
    LET hits == {i \in 1..Len(lls) : lls[i].Name = MetricNameLabelName} IN
    IF override = "" \/ hits = {}
    THEN lls
    ELSE LET first == CHOOSE i \in hits : \A j \in hits : i <= j IN
         [lls EXCEPT ![first].Value = override]

\* line 124: sort.Sort(lls). On the short slices met here (fewer than 7
\* labels) sort.Sort is an insertion sort driven by Less: each element moves
\* left while it is less than its left neighbour, so labels of equal name
\* keep their order.
RECURSIVE InsertLabel(_, _)
InsertLabel(sorted, l) ==
    IF sorted = << >> \/ ~LabelLess(l, sorted[Len(sorted)])
    THEN Append(sorted, l)
    ELSE Append(InsertLabel(SubSeq(sorted, 1, Len(sorted) - 1), l),
                sorted[Len(sorted)])

RECURSIVE SortFrom(_, _)
SortFrom(sorted, rest) ==
    IF rest = << >> THEN sorted
    ELSE SortFrom(InsertLabel(sorted, Head(rest)), Tail(rest))

\* mutant of SortLabels: the labels are left in assembly order
SortLabelsKeepsOrder(lls) == lls

SortLabels(lls) == SortFrom(<< >>, lls)

\* mutant of AtErr: At() keeps an error that is already held
AtErrKeepsFirst(perr, raised) == IF perr = NoErr THEN raised ELSE perr

\* mutant of AtErr: a failure raised while an error is held is merged with it
AtErrJoins(perr, raised) ==
    IF perr = NoErr THEN raised ELSE [kind |-> "multiple errors", id |-> 0]

\* lines 81, 104, 108: p.err = <the failure>, whatever p.err held before
AtErr(perr, raised) == raised

\* mutant of MapAfterAt: lls holds references into the mapping, so the
\* override of line 117 is written into the mapped label
MapAfterAtAliased(m, row) ==
    LET Hit(id) == id # 0 /\ id \in DOMAIN m /\ m[id].Name = MetricNameLabelName
        hits == SelectSeq(row.labelIds, Hit)
    IN IF row.metricOverride # "" /\ hits # << >>
       THEN [m EXCEPT ![hits[1]].Value = row.metricOverride]
       ELSE m

\* lines 102, 111, 117: labels.Label is a struct, so lls holds copies of
\* the mapped labels and the override is written to the copy: an At() call
\* that gets as far as the override leaves p.labelIDMap as it was
MapAfterAt(m, row) == m

\* lines 114-118: this At() call overwrites the value of a resolved label
Overrides(row, out) ==
    /\ out.series.kind = "series"
    /\ row.metricOverride # ""
    /\ \E i \in DOMAIN out.series.labels :
          out.series.labels[i] = Label(MetricNameLabelName, row.metricOverride)

\* mutant of Assemble: the early return of lines 92-94 is missing
AssembleNoShortCut(row, m) ==
    IF row.err # NoErr
    THEN [series |-> NilSeries, err |-> NoErr]
    ELSE IF LenMismatch(row)
    THEN [series |-> NilSeries, err |-> ErrInvalidRowData]
    ELSE LET res == ResolveLabels(row.labelIds, m, << >>) IN
         IF res.err # NoErr
         THEN [series |-> NilSeries, err |-> res.err]
         ELSE LET lls == ApplyOverride(res.lls, row.metricOverride) \o
                         row.additionalLabels
              IN [series |-> pgxSeries(SortLabels(lls), row.times, row.values),
                  err |-> NoErr]

\* lines 75-127: what At() returns for the row it is positioned on, and the
\* error it assigns to p.err (NoErr: p.err is not assigned)
Assemble(row, m) ==
    IF row.err # NoErr
    THEN [series |-> NilSeries, err |-> NoErr]
    ELSE IF LenMismatch(row)
    THEN [series |-> NilSeries, err |-> ErrInvalidRowData]
    ELSE IF Len(row.labelIds) = 0
    THEN [series |-> pgxSeries(<< >>, row.times, row.values), err |-> NoErr]
    ELSE LET res == ResolveLabels(row.labelIds, m, << >>) IN
         IF res.err # NoErr
         THEN [series |-> NilSeries, err |-> res.err]
         ELSE LET lls == ApplyOverride(res.lls, row.metricOverride) \o
                         row.additionalLabels
              IN [series |-> pgxSeries(SortLabels(lls), row.times, row.values),
                  err |-> NoErr]

pgxSeriesSetAt ==
    /\ set = "pgxSeriesSet"
    /\ ~panicked
    /\ IF AtOutOfRange(rowIdx, Len(rows))
       THEN /\ atResult' = NilSeries
            /\ UNCHANGED << err, panicked, labelIDMap, overridden >>
       ELSE IF rowIdx < 0
       THEN \* line 75: p.rows[-1], index out of range
            /\ panicked' = TRUE
            /\ UNCHANGED << err, atResult, labelIDMap, overridden >>
       ELSE LET row == rows[rowIdx + 1]
                out == Assemble(row, labelIDMap)
            IN /\ atResult' = out.series
               /\ err' = IF out.err # NoErr THEN AtErr(err, out.err) ELSE err
               /\ labelIDMap' = IF out.series.kind = "series"
                                THEN MapAfterAt(labelIDMap, row)
                                ELSE labelIDMap
               /\ overridden' = (overridden \/ Overrides(row, out))
               /\ UNCHANGED panicked
    /\ lastOp' = "At"
    /\ atStreak' = IF atStreak < 2 THEN atStreak + 1 ELSE 2
    /\ UNCHANGED << rows, rowIdx, lastNext, closeLog, closeCalls >>
    /\ UNCHANGED << set, resolveErr, resolverCalls, nextCalls, itVars >>

----------------------------------------------------------------------------
(* pgxSeriesSet.Err *)

\* Err() wraps p.err ("Error retrieving series set: %w"), or returns nil
Err == IF err # NoErr THEN [kind |-> "Error retrieving series set", wraps |-> err]
       ELSE [kind |-> "nil", wraps |-> NoErr]

NilError == [kind |-> "nil", wraps |-> NoErr]

----------------------------------------------------------------------------
(* pgxSeriesSet.Close *)

\* mutant of CloseRows: only the rows Next() has visited are closed
CloseRowsVisited(rs, idx) ==
    LET n == IF idx + 1 < Len(rs) THEN idx + 1 ELSE Len(rs) IN [i \in 1..n |-> i - 1]

\* mutant of CloseRows: the first row is closed twice
CloseRowsFirstTwice(rs, idx) ==
    (IF rs = << >> THEN << >> ELSE <<0>>) \o [i \in 1..Len(rs) |-> i - 1]

\* lines 141-143: the rows whose Close() one Close() call invokes, in order
CloseRows(rs, idx) == [i \in 1..Len(rs) |-> i - 1]

pgxSeriesSetClose ==
    /\ set = "pgxSeriesSet"
    /\ ~panicked
    /\ closeCalls < MaxCloses
    /\ closeCalls' = closeCalls + 1
    /\ closeLog' = closeLog \o CloseRows(rows, rowIdx)
    /\ lastOp' = "Close"
    /\ UNCHANGED << rows, labelIDMap, rowIdx, err, atResult, lastNext, panicked >>
    /\ atStreak' = 0
    /\ UNCHANGED << set, resolveErr, resolverCalls, nextCalls, overridden, itVars >>

----------------------------------------------------------------------------
(* The cursor as buildSeriesSet returns it, and its callers' steps *)

\* the failure querier.LabelsForIdMap may return
ResolutionErr == [kind |-> "ResolutionError", id |-> 0]

\* mutant of BuildSet: the resolver's error is not checked
BuildSetIgnoresErr(rerr) == "pgxSeriesSet"

\* lines 41-51: an errorSeriesSet when the resolver failed, else a pgxSeriesSet
BuildSet(rerr) == IF rerr # NoErr THEN "errorSeriesSet" ELSE "pgxSeriesSet"

\* no iterator is built while the cursor is walked
NoIterator ==
    /\ cur = -1
    /\ totalSamples = 0
    /\ itTimes = << >>
    /\ itValues = << >>
    /\ itOp = "none"
    /\ itRet = "none"
    /\ itAt = << >>
    /\ seekT = 0
    /\ seekFrom = -1
    /\ fresh = TRUE
    /\ yieldLog = << >>

\* lines 37-52: buildSeriesSet(rows, querier), rows being one of rowSeqs and
\* the resolver returning one of rerrs
buildSeriesSet(rowSeqs, rerrs) ==
    /\ rows \in rowSeqs
    /\ labelIDMap \in LabelIDMaps
    /\ resolveErr \in rerrs
    /\ resolverCalls = 1
    /\ set = BuildSet(resolveErr)
    /\ err = IF set = "errorSeriesSet" THEN resolveErr ELSE NoErr
    /\ rowIdx = -1
    /\ atResult = NotCalled
    /\ lastNext = "none"
    /\ lastOp = "buildSeriesSet"
    /\ closeLog = << >>
    /\ closeCalls = 0
    /\ nextCalls = 0
    /\ atStreak = 0
    /\ overridden = FALSE
    /\ panicked = FALSE
    /\ NoIterator

\* the cursor of a build whose resolver succeeded
Init == buildSeriesSet(RowSeqs, {NoErr})

Next ==
    \/ pgxSeriesSetNext
    \/ pgxSeriesSetAt
    \/ pgxSeriesSetClose

Spec == Init /\ [][Next]_vars

----------------------------------------------------------------------------
(* errorSeriesSet: what buildSeriesSet returns when the resolver failed.   *)
(* Next returns false, At returns nil, Err returns the failure, Close     *)
(* does nothing.                                                           *)

errorSeriesSetNext ==
    /\ set = "errorSeriesSet"
    /\ nextCalls < Len(rows) + MaxExtraNexts
    /\ nextCalls' = nextCalls + 1
    /\ lastNext' = "false"
    /\ lastOp' = "Next"
    /\ atStreak' = 0
    /\ UNCHANGED << rows, labelIDMap, rowIdx, err, atResult, closeLog, closeCalls,
                    set, resolveErr, resolverCalls, overridden, itVars, panicked >>

errorSeriesSetAt ==
    /\ set = "errorSeriesSet"
    /\ atResult' = NilSeries
    /\ lastOp' = "At"
    /\ atStreak' = IF atStreak < 2 THEN atStreak + 1 ELSE 2
    /\ UNCHANGED << rows, labelIDMap, rowIdx, err, lastNext, closeLog, closeCalls,
                    set, resolveErr, resolverCalls, nextCalls, overridden, itVars,
                    panicked >>

errorSeriesSetErr == err

errorSeriesSetClose ==
    /\ set = "errorSeriesSet"
    /\ closeCalls < MaxCloses
    /\ closeCalls' = closeCalls + 1
    /\ lastOp' = "Close"
    /\ atStreak' = 0
    /\ UNCHANGED << rows, labelIDMap, rowIdx, err, atResult, lastNext, closeLog,
                    set, resolveErr, resolverCalls, nextCalls, overridden, itVars,
                    panicked >>

\* the SeriesSet of any build over several rows, the resolver succeeding or
\* failing
InitBuild == buildSeriesSet(SeqsUpTo(CursorRows, MaxRows), {NoErr, ResolutionErr})

NextBuild ==
    \/ pgxSeriesSetNext
    \/ pgxSeriesSetAt
    \/ pgxSeriesSetClose
    \/ errorSeriesSetNext
    \/ errorSeriesSetAt
    \/ errorSeriesSetClose

SpecBuild == InitBuild /\ [][NextBuild]_vars

----------------------------------------------------------------------------
(* pgxSeriesIterator: the samples of one Series. Position i of the code is *)
(* itTimes[i + 1], itValues[i + 1] here; cur keeps the code's value.       *)

\* what times.At(i) may return for a position: (ts, true), or (0, false)
TimeChoices ==
    {[ts |-> 0, ok |-> TRUE], [ts |-> 1, ok |-> TRUE], [ts |-> 2, ok |-> TRUE],
     [ts |-> 0, ok |-> FALSE]}

ValueChoices == {Present(1), Present(3), Null}

\* arguments of Seek
SeekTargets == {0, 1, 2, 3}

\* lines 196, 219: times.At(i)
TimesAt(times, i) ==
    IF i + 1 \in DOMAIN times THEN times[i + 1] ELSE [ts |-> 0, ok |-> FALSE]

\* mutant of SampleOk: the Status of the value is not tested
SampleOkIgnoresStatus(times, values, i) == TimesAt(times, i).ok

\* mutant of SampleOk: the ok result of times.At is not tested
SampleOkIgnoresTs(times, values, i) == values[i + 1].Status = "Present"

\* lines 219-220: the timestamp can be read and the value is present
SampleOk(times, values, i) ==
    TimesAt(times, i).ok /\ values[i + 1].Status = "Present"

\* lines 213-224: the loop of Next() from position c: the position it stops
\* at and what it returns
RECURSIVE NextPos(_, _, _, _)
NextPos(c, n, times, values) ==
    IF c + 1 >= n
    THEN [cur |-> c + 1, ret |-> FALSE]
    ELSE IF SampleOk(times, values, c + 1)
         THEN [cur |-> c + 1, ret |-> TRUE]
         ELSE NextPos(c + 1, n, times, values)

\* lines 195-198
getTs(times, c) == TimesAt(times, c).ts

\* lines 200-202
getVal(values, c) == values[c + 1].Float

\* mutant of SeekStart: the scan starts from the current position
SeekStartKeeps(c) == c

\* line 183: p.cur = -1
SeekStart(c) == -1

\* lines 185-191: the loop of Seek(t) from position c
RECURSIVE SeekPos(_, _, _, _, _)
SeekPos(c, t, n, times, values) ==
    LET r == NextPos(c, n, times, values) IN
    IF ~r.ret THEN r
    ELSE IF getTs(times, r.cur) >= t THEN r
    ELSE SeekPos(r.cur, t, n, times, values)

\* mutant of ItAtOutOfRange: only the upper end is tested
ItAtOutOfRangeHighOnly(c, n) == c >= n

\* line 206
ItAtOutOfRange(c, n) == c >= n \/ c < 0

Bool(b) == IF b THEN "true" ELSE "false"

pgxSeriesIteratorNext ==
    /\ ~panicked
    /\ cur < totalSamples + MaxOverrun
    /\ LET r == NextPos(cur, totalSamples, itTimes, itValues) IN
       /\ cur' = r.cur
       /\ itRet' = Bool(r.ret)
       /\ yieldLog' = IF fresh /\ r.ret THEN Append(yieldLog, r.cur) ELSE yieldLog
    /\ itOp' = "Next"
    /\ itAt' = << >>
    /\ seekT' = 0
    /\ seekFrom' = -1
    /\ UNCHANGED << totalSamples, itTimes, itValues, fresh, setVars, panicked >>

pgxSeriesIteratorSeek(t) ==
    /\ ~panicked
    /\ LET r == SeekPos(SeekStart(cur), t, totalSamples, itTimes, itValues) IN
       /\ cur' = r.cur
       /\ itRet' = Bool(r.ret)
    /\ itOp' = "Seek"
    /\ seekT' = t
    /\ seekFrom' = cur
    /\ fresh' = FALSE
    /\ yieldLog' = << >>
    /\ itAt' = << >>
    /\ UNCHANGED << totalSamples, itTimes, itValues, setVars, panicked >>

pgxSeriesIteratorAt ==
    /\ ~panicked
    /\ IF ItAtOutOfRange(cur, totalSamples)
       THEN /\ itAt' = <<0, 0>>
            /\ UNCHANGED panicked
       ELSE IF cur + 1 \notin DOMAIN itValues
       THEN \* line 201: p.values.Elements[p.cur], index out of range
            /\ panicked' = TRUE
            /\ itAt' = << >>
       ELSE /\ itAt' = <<getTs(itTimes, cur), getVal(itValues, cur)>>
            /\ UNCHANGED panicked
    /\ itOp' = "At"
    /\ seekT' = 0
    /\ seekFrom' = -1
    /\ UNCHANGED << cur, totalSamples, itTimes, itValues, itRet, fresh, yieldLog,
                    setVars >>

\* no cursor is walked while an iterator is
NoCursor ==
    /\ rows = << >>
    /\ labelIDMap = << >>
    /\ rowIdx = -1
    /\ err = NoErr
    /\ atResult = NotCalled
    /\ lastNext = "none"
    /\ lastOp = "none"
    /\ closeLog = << >>
    /\ closeCalls = 0
    /\ set = "none"
    /\ resolveErr = NoErr
    /\ resolverCalls = 0
    /\ nextCalls = 0
    /\ atStreak = 0
    /\ overridden = FALSE

\* lines 172-179: newIterator(times, values), the two of the same length as
\* in every Series At() returns (line 80)
newIterator ==
    /\ itTimes \in SeqsUpTo(TimeChoices, MaxSamples)
    /\ itValues \in [1..Len(itTimes) -> ValueChoices]
    /\ cur = -1
    /\ totalSamples = Len(itTimes)
    /\ itOp = "newIterator"
    /\ itRet = "none"
    /\ itAt = << >>
    /\ seekT = 0
    /\ seekFrom = -1
    /\ fresh = TRUE
    /\ yieldLog = << >>
    /\ panicked = FALSE

InitIter == newIterator /\ NoCursor

NextIter ==
    \/ pgxSeriesIteratorNext
    \/ \E t \in SeekTargets : pgxSeriesIteratorSeek(t)
    \/ pgxSeriesIteratorAt

SpecIter == InitIter /\ [][NextIter]_vars

----------------------------------------------------------------------------
(* Vocabulary of the properties *)

\* the cursor is on a row: the last Next() moved it there
Positioned == rowIdx >= 0 /\ rowIdx < Len(rows)

\* the row the cursor is on
CurRow == rows[rowIdx + 1]

\* the last call was At() on the row the cursor is on
AtCalledOnRow == lastOp = "At" /\ Positioned

Count(s, x) == Cardinality({i \in DOMAIN s : s[i] = x})

Range(s) == {s[i] : i \in DOMAIN s}

\* s is a permutation of t
SameBag(s, t) ==
    /\ Len(s) = Len(t)
    /\ \A x \in Range(s) \cup Range(t) : Count(s, x) = Count(t, x)

SortedByName(lls) ==
    \A i \in 1..(Len(lls) - 1) : NameRank(lls[i].Name) <= NameRank(lls[i + 1].Name)

NonZero(id) == id # 0

\* id has no entry in the mapping, or the zero-value label
Unresolved(id) == id \notin DOMAIN labelIDMap \/ labelIDMap[id] = ZeroLabel

\* positions of row.labelIds holding a non-zero identifier that is unresolved
UnresolvedAt(row) ==
    {i \in 1..Len(row.labelIds) : NonZero(row.labelIds[i]) /\ Unresolved(row.labelIds[i])}

WellFormed(row) == row.err = NoErr /\ Len(row.times) = Len(row.values)

\* the labels of the row's non-zero identifiers, in labelIds order
ResolvedOf(row) ==
    LET nz == SelectSeq(row.labelIds, NonZero) IN
    [i \in 1..Len(nz) |-> labelIDMap[nz[i]]]

\* ResolvedOf(row) with the value of the first label named __name__ replaced
\* by the row's override, when it has one
PostOverride(row) ==
    LET R == ResolvedOf(row) IN
    [i \in 1..Len(R) |->
        IF /\ row.metricOverride # ""
           /\ R[i].Name = MetricNameLabelName
           /\ \A j \in 1..(i - 1) : R[j].Name # MetricNameLabelName
        THEN Label(MetricNameLabelName, row.metricOverride)
        ELSE R[i]]

----------------------------------------------------------------------------
(* Properties *)

\* C1: At() before any Next(), or after a Next() that returned false, returns
\* nil and never panics (never indexes p.rows out of range).
C1_AtOffRowsYieldsNil ==
    /\ ~panicked
    /\ (lastOp = "At" /\ lastNext \in {"none", "false"}) => atResult = NilSeries

\* C2: the first failure held by p.err is latched: once p.err is set, no
\* later Next() or At() replaces it, so Err() keeps reporting it.
C2_FirstFailureLatched == [][err # NoErr => err' = err]_vars

\* C3: when the last Next() returned true and At() returns nil, Err() is
\* non-nil.
C3_NilAtRowHasError ==
    (lastNext = "true" /\ lastOp = "At" /\ atResult = NilSeries) => Err # NilError

C3_Witness ==
    /\ lastNext = "true" /\ lastOp = "At" /\ atResult = NilSeries
    /\ Positioned /\ CurRow.err # NoErr /\ Err # NilError

\* C4: one Close() call invokes Close() of every row exactly once, in row
\* order, wherever the cursor is.
C4_CloseReleasesAllInOrder ==
    closeCalls = 1 => closeLog = [i \in 1..Len(rows) |-> i - 1]

C4_Witness ==
    /\ closeCalls = 1 /\ lastOp = "Close"
    /\ Len(rows) = 2 /\ rowIdx = 0
    /\ closeLog = <<0, 1>>

\* C5 as claimed: over the cursor's lifetime, repeated Close() calls
\* included, each row's Close() is called at most once.
C5_ReleasedAtMostOnce ==
    \A i \in 0..(Len(rows) - 1) : Count(closeLog, i) <= 1

\* C5 amended: each row's Close() is called exactly once per Close() call of
\* the cursor and by nothing else, so at most once when the cursor is closed
\* at most once.
C5_ReleasedOncePerClose ==
    /\ Len(closeLog) = closeCalls * Len(rows)
    /\ \A i \in 0..(Len(rows) - 1) : Count(closeLog, i) = closeCalls

C5_Witness ==
    /\ closeCalls = 2 /\ Len(rows) = 2
    /\ closeLog = <<0, 1, 0, 1>>

\* C6: once Next() has returned false, every later Next() returns false and
\* leaves rowIdx and p.err unchanged, and every later At() returns nil.
C6_ExhaustionTerminal ==
    [][lastNext = "false" =>
          /\ lastNext' = "false"
          /\ rowIdx' = rowIdx
          /\ err' = err
          /\ ~panicked'
          /\ lastOp' = "At" => atResult' = NilSeries]_vars

\* Next() called again after an At() that found the cursor exhausted: an
\* At() that returned nil with no error held was called past the last row.
C6_Witness ==
    /\ lastOp = "Next" /\ lastNext = "false"
    /\ Len(rows) >= 1 /\ rowIdx = Len(rows)
    /\ atResult = NilSeries /\ err = NoErr

\* C7: At() on a row without an error of its own whose times and values
\* differ in length returns nil, and Err() then reports ErrInvalidRowData.
C7_LengthMismatchIsInvalidRowData ==
    (AtCalledOnRow /\ CurRow.err = NoErr /\ Len(CurRow.times) # Len(CurRow.values))
        => /\ atResult = NilSeries
           /\ Err = [kind |-> "Error retrieving series set", wraps |-> ErrInvalidRowData]

C7_Witness ==
    /\ AtCalledOnRow /\ rowIdx = 1
    /\ rows[1].err # NoErr
    /\ CurRow.err = NoErr /\ Len(CurRow.times) # Len(CurRow.values)
    /\ atResult = NilSeries /\ err = ErrInvalidRowData

\* C8: At() on a well-formed row that references a non-zero identifier with
\* no entry, or the zero-value label, in the mapping returns nil, and Err()
\* then reports the missing label of the first such identifier of labelIds;
\* identifiers equal to 0 are skipped and never reported.
C8_UnresolvedIdIsMissingLabel ==
    /\ err.kind = "Missing label for id" => err.id # 0
    /\ (AtCalledOnRow /\ WellFormed(CurRow)) =>
          IF UnresolvedAt(CurRow) # {}
          THEN LET first == CHOOSE i \in UnresolvedAt(CurRow) :
                                \A j \in UnresolvedAt(CurRow) : i <= j
               IN /\ atResult = NilSeries
                  /\ Err = [kind |-> "Error retrieving series set",
                            wraps |-> MissingLabel(CurRow.labelIds[first])]
          ELSE atResult.kind = "series"

C8_Witness ==
    /\ AtCalledOnRow /\ WellFormed(CurRow)
    /\ Len(CurRow.labelIds) = 2
    /\ CurRow.labelIds[1] = 0
    /\ CurRow.labelIds[2] \in DOMAIN labelIDMap
    /\ labelIDMap[CurRow.labelIds[2]] = ZeroLabel
    /\ atResult = NilSeries
    /\ err = MissingLabel(CurRow.labelIds[2])

\* C9: with a non-empty metricOverride, the Series At() returns holds the
\* row's resolved labels with the value of exactly the first one named
\* __name__ replaced by the override, every other resolved label and every
\* additional label as it was; without a resolved __name__ label nothing is
\* added.
C9_OverrideReplacesFirstMetricName ==
    (AtCalledOnRow /\ atResult.kind = "series" /\ CurRow.metricOverride # "") =>
        IF CurRow.labelIds = << >>
        THEN atResult.labels = << >>
        ELSE /\ SameBag(atResult.labels, PostOverride(CurRow) \o CurRow.additionalLabels)
             /\ (\A i \in DOMAIN ResolvedOf(CurRow) :
                     ResolvedOf(CurRow)[i].Name # MetricNameLabelName)
                  => SameBag(atResult.labels,
                             ResolvedOf(CurRow) \o CurRow.additionalLabels)

\* two resolved labels are named __name__: the first gets the override, the
\* second keeps its value
C9_Witness ==
    /\ AtCalledOnRow /\ atResult.kind = "series"
    /\ CurRow.metricOverride = "bar"
    /\ CurRow.labelIds = <<3, 1>>
    /\ CurRow.additionalLabels # << >>
    /\ Count(atResult.labels, Label("__name__", "bar")) = 1
    /\ Count(atResult.labels, Label("__name__", "foo")) = 1
    /\ Count(atResult.labels, Label("__name__", "baz")) = 0

\* C10 as claimed: the labels of every Series At() returns are sorted by name
\* and are a permutation of the post-override resolved labels followed by
\* the additional labels.
C10_SortedPermutationAlways ==
    (AtCalledOnRow /\ atResult.kind = "series") =>
        /\ SortedByName(atResult.labels)
        /\ SameBag(atResult.labels, PostOverride(CurRow) \o CurRow.additionalLabels)

\* C10 amended: that holds for every row with at least one label identifier;
\* a row with no label identifier gets the empty label sequence, its
\* additional labels left out.
C10_SortedPermutationUnlessNoIds ==
    (AtCalledOnRow /\ atResult.kind = "series") =>
        IF Len(CurRow.labelIds) = 0
        THEN atResult.labels = << >>
        ELSE /\ SortedByName(atResult.labels)
             /\ SameBag(atResult.labels,
                        PostOverride(CurRow) \o CurRow.additionalLabels)

\* labelIds out of name order and additional labels sorting before and after
C10_Witness ==
    /\ AtCalledOnRow /\ atResult.kind = "series"
    /\ CurRow.labelIds = <<2, 1>>
    /\ CurRow.additionalLabels # << >>
    /\ Len(atResult.labels) = 4
    /\ atResult.labels[1].Name = "Zone"
    /\ atResult.labels[2].Name = "__name__"

\* C13: when the resolver fails, the SeriesSet buildSeriesSet returns never
\* exposes a row: every Next() returns false, At() returns nil, Err()
\* reports the resolver's failure and Close() releases no row.
C13_FailedResolutionExposesNothing ==
    resolveErr # NoErr =>
        /\ set = "errorSeriesSet"
        /\ ~panicked
        /\ lastNext # "true"
        /\ nextCalls >= 1 => lastNext = "false"
        /\ atResult.kind # "series"
        /\ lastOp = "At" => atResult = NilSeries
        /\ errorSeriesSetErr = resolveErr
        /\ closeLog = << >>

C13_Witness ==
    /\ resolveErr = ResolutionErr
    /\ Len(rows) = 2
    /\ nextCalls = 2 /\ lastNext = "false"
    /\ closeCalls = 1 /\ closeLog = << >>
    /\ lastOp = "At" /\ atResult = NilSeries
    /\ errorSeriesSetErr = ResolutionErr

\* C15: the sticky error is never cleared: once p.err is non-nil, it is
\* non-nil after every further Next(), At() and Close().
C15_StickyErrorNeverCleared == [][err # NoErr => err' # NoErr]_vars

\* the first row's error is still held after the cursor moved to a clean
\* row, returned its Series and was closed
C15_Witness ==
    /\ Len(rows) = 2 /\ rowIdx = 1
    /\ rows[1].err # NoErr /\ rows[2].err = NoErr
    /\ atResult.kind = "series"
    /\ lastOp = "Close" /\ closeCalls = 1
    /\ err = rows[1].err

\* C16: for n rows Next() returns true on exactly its first n calls,
\* whatever errors the rows carry or the cursor holds, and visits every row
\* in turn; on a row with an error of its own At() returns nil; on a
\* well-formed row whose labels resolve At() returns a Series even when an
\* error is held, and the error of an earlier row stays reported.
C16_FailuresDoNotStopIteration ==
    /\ nextCalls >= 1 => (lastNext = "true" <=> nextCalls <= Len(rows))
    /\ rowIdx = (IF nextCalls <= Len(rows) THEN nextCalls - 1 ELSE Len(rows))
    /\ (AtCalledOnRow /\ CurRow.err # NoErr) => atResult = NilSeries
    /\ (AtCalledOnRow /\ WellFormed(CurRow) /\ UnresolvedAt(CurRow) = {})
          => atResult.kind = "series"
    /\ (\E i \in 1..Len(rows) : i <= rowIdx + 1 /\ rows[i].err # NoErr) => Err # NilError

C16_Witness ==
    /\ Len(rows) = 2 /\ nextCalls = 2 /\ rowIdx = 1 /\ lastNext = "true"
    /\ rows[1].err # NoErr
    /\ WellFormed(rows[2])
    /\ lastOp = "At" /\ atResult.kind = "series"
    /\ Err # NilError

\* the labels the store holds for the row's non-zero identifiers
StoredOf(row) ==
    LET nz == SelectSeq(row.labelIds, NonZero) IN
    [i \in 1..Len(nz) |-> StoredLabel(nz[i])]

\* a Series returned for a row without override carries the labels as the
\* resolver stored them
UnoverriddenRowGetsStored ==
    (AtCalledOnRow /\ atResult.kind = "series" /\ CurRow.metricOverride = ""
        /\ CurRow.labelIds # << >>)
        => SameBag(atResult.labels, StoredOf(CurRow) \o CurRow.additionalLabels)

\* C17: the resolver is called once, by buildSeriesSet, and no Next(), At()
\* or Close() changes the mapping; a metricOverride applied by At() is not
\* written to the mapped label, so a later row without override that names
\* the same identifier gets the value the resolver stored.
C17_MappingWriteOnce ==
    /\ resolverCalls = 1
    /\ [][/\ resolverCalls' = 1
          /\ labelIDMap' = labelIDMap
          /\ UnoverriddenRowGetsStored']_vars

C17_Witness ==
    /\ Len(rows) = 2 /\ rowIdx = 1
    /\ rows[1].metricOverride = "bar" /\ rows[1].labelIds = <<1, 2>>
    /\ overridden
    /\ rows[2].metricOverride = "" /\ rows[2].labelIds = <<2, 1>>
    /\ lastOp = "At" /\ atResult.kind = "series"
    /\ atResult.labels = <<Label("__name__", "foo"), Label("job", "a")>>

\* C18: At() never moves the cursor, and an At() call that follows an At()
\* call returns what that one returned and leaves p.err as that one left it.
C18_AtIdempotent ==
    [][lastOp' = "At" =>
          /\ rowIdx' = rowIdx
          /\ lastOp = "At" => (atResult' = atResult /\ err' = err)]_vars

C18_Witness ==
    /\ atStreak = 2 /\ AtCalledOnRow
    /\ Len(rows) = 2 /\ rowIdx = 1
    /\ rows[1].err # NoErr
    /\ atResult = NilSeries /\ err = ErrInvalidRowData

\* C19: At() on a well-formed row with no label identifiers returns a Series
\* with the row's times and values and no labels, and assigns no error,
\* whatever the row's metricOverride and additional labels; on a row whose
\* labelIds is non-empty and all 0 the Series carries the additional labels.
C19_NoLabelIdsGivesEmptyLabels ==
    [][(lastOp' = "At" /\ Positioned /\ WellFormed(CurRow)
          /\ \A i \in DOMAIN CurRow.labelIds : CurRow.labelIds[i] = 0) =>
          /\ err' = err
          /\ atResult'.kind = "series"
          /\ atResult'.times = CurRow.times
          /\ atResult'.values = CurRow.values
          /\ IF CurRow.labelIds = << >>
             THEN atResult'.labels = << >>
             ELSE /\ SortedByName(atResult'.labels)
                  /\ SameBag(atResult'.labels, CurRow.additionalLabels)]_vars

C19_Witness ==
    /\ AtCalledOnRow /\ WellFormed(CurRow)
    /\ CurRow.labelIds = << >>
    /\ CurRow.metricOverride = "bar"
    /\ CurRow.additionalLabels # << >>
    /\ atResult = pgxSeries(<< >>, CurRow.times, CurRow.values)
    /\ err = NoErr

----------------------------------------------------------------------------
(* Properties of the sample iterator *)

\* the positions holding a sample: the timestamp reads and the value is present
PresentPositions ==
    {i \in 0..(totalSamples - 1) :
        itTimes[i + 1].ok /\ itValues[i + 1].Status = "Present"}

\* the (timestamp, value) pair at position i
SampleAt(i) == <<itTimes[i + 1].ts, itValues[i + 1].Float>>

\* s lists the members of S in increasing order, each once
ListsInOrder(s, S) ==
    /\ Range(s) = S
    /\ Len(s) = Cardinality(S)
    /\ \A i \in 1..(Len(s) - 1) : s[i] < s[i + 1]

\* C11: on a fresh iterator the Next() calls return true once for each
\* position holding a sample, in increasing order, At() then gives that
\* position's (timestamp, value); positions with an absent value are never
\* yielded, and once all samples are passed every Next() returns false.
C11_NextYieldsPresentSamplesInOrder ==
    fresh =>
        /\ ListsInOrder(yieldLog, {i \in PresentPositions : i <= cur})
        /\ itRet = "true" => (cur \in PresentPositions /\ yieldLog[Len(yieldLog)] = cur)
        /\ itRet = "false" => ListsInOrder(yieldLog, PresentPositions)
        /\ cur >= totalSamples => itRet = "false"
        /\ (itOp = "At" /\ itRet = "true") => itAt = SampleAt(cur)

\* times [0, 1, 2], values [1, null, 3]: the samples at 0 and 2 were
\* yielded and two more Next() calls have returned false
C11_Witness ==
    /\ fresh /\ totalSamples = 3
    /\ itValues = <<Present(1), Null, Present(3)>>
    /\ \A i \in 1..3 : itTimes[i] = [ts |-> i - 1, ok |-> TRUE]
    /\ yieldLog = <<0, 2>>
    /\ itOp = "Next" /\ itRet = "false" /\ cur = totalSamples + 1

\* C12: Seek(t), from any position, returns true with the iterator on the
\* first position holding a sample with timestamp >= t, or returns false
\* with the iterator exhausted when there is none.
C12_SeekFindsFirstSampleAtOrAfter ==
    itOp = "Seek" =>
        LET hits == {i \in PresentPositions : itTimes[i + 1].ts >= seekT} IN
        IF hits # {}
        THEN /\ itRet = "true"
             /\ cur \in hits
             /\ \A j \in hits : cur <= j
        ELSE /\ itRet = "false"
             /\ cur = totalSamples

\* a Seek() from an exhausted iterator back to a sample that is not the first
C12_Witness ==
    /\ itOp = "Seek" /\ itRet = "true"
    /\ seekFrom >= totalSamples
    /\ cur = 1 /\ 0 \in PresentPositions
    /\ itTimes[1].ts < seekT

\* C14: At() returns (0, 0) and does not fail when the position is out of
\* range: before any Next() or Seek(), after one that returned false, and
\* after further Next() calls.
C14_AtOutOfRangeIsZero ==
    /\ ~panicked
    /\ (itOp = "At" /\ (cur < 0 \/ cur >= totalSamples)) => itAt = <<0, 0>>
    /\ itRet = "false" => cur >= totalSamples
    /\ itRet = "none" => cur = -1

C14_Witness ==
    /\ itOp = "At" /\ itAt = <<0, 0>>
    /\ itRet = "false"
    /\ totalSamples = 2 /\ PresentPositions = {0, 1}
    /\ cur = totalSamples + 2

\* the iterator is before the first position, past the last, or on a sample
ParkedOnSample ==
    /\ cur >= -1
    /\ (cur >= 0 /\ cur < totalSamples) => cur \in PresentPositions
    /\ (itOp = "At" /\ cur >= 0 /\ cur < totalSamples) =>
          (itValues[cur + 1].Status = "Present" /\ itAt = SampleAt(cur))

\* C20: after any Next() and Seek() calls the position is -1, or at least
\* the sample count, or a position holding a sample, so At() never returns
\* the content of an absent value; and once the position has reached the
\* sample count no Next() brings it back in range.
C20_PositionIsOffOrOnSample ==
    /\ ParkedOnSample
    /\ [][/\ ParkedOnSample'
          /\ (cur >= totalSamples /\ itOp' = "Next") => cur' >= totalSamples]_vars

\* after a Seek() the iterator skipped the absent value at position 1 and
\* At() returned the sample at position 2
C20_Witness ==
    /\ ~fresh /\ itOp = "At"
    /\ totalSamples = 3 /\ cur = 2
    /\ itValues[2] = Null
    /\ itAt = <<itTimes[3].ts, 3>>

====
